---- MODULE Spec2Model ----
(***************************************************************************)
(* Model of the OCR command-line tool src/ocr.py: one run of main(), from  *)
(* the parsed arguments to the exit code, with the file system, the        *)
(* Tesseract engine and the imaging library as the environment.            *)
(*                                                                         *)
(* Python's Optional[T] is a sequence of length 0 (None) or 1 (a value).   *)
(* A text with line breaks is written as a TLA+ string; a text whose       *)
(* characters the code inspects (the OSD report) is a sequence of lines,   *)
(* each a sequence of one-character strings.                               *)
(***************************************************************************)
EXTENDS Integers, Sequences, FiniteSets, TLC

VARIABLES
    args,        \* argparse.Namespace returned by parse_args
    path_exists, \* environment: args.image.exists()
    engine_up,   \* environment: pytesseract.get_tesseract_version() succeeds
    pc,          \* position of the run inside main / ocr_image
    img,         \* ocr_image's local `img`
    osd,         \* _deskew_with_tesseract's local `osd` (the engine's answer)
    config,      \* ocr_image's local `config`
    text,        \* main's local `text`
    exc,         \* the exception in flight, if any
    rc,          \* main's return value
    stdout,      \* writes made to sys.stdout, in order
    stderr,      \* lines printed to sys.stderr, in order
    fs,          \* the output path on disk: parent directories, file content
    calls        \* history: functions entered and transforms applied, in order

vars == <<args, path_exists, engine_up, pc, img, osd, config, text, exc, rc,
          stdout, stderr, fs, calls>>

----------------------------------------------------------------------------
(* Bounds of the model *)

\* Number of pixels of a loaded image (a NumPixels x 1 raster).
NumPixels == 2

----------------------------------------------------------------------------
(* Optional values *)

None == <<>>
Some(x) == <<x>>
IsSome(o) == o # <<>>
Get(o) == o[1]

Max(a, b) == IF a > b THEN a ELSE b
Min(a, b) == IF a < b THEN a ELSE b

\* The elements of s, reversed.
Reverse(s) == [i \in 1..Len(s) |-> s[Len(s) + 1 - i]]

\* s is an initial segment of t.
IsPrefix(s, t) == Len(s) <= Len(t) /\ SubSeq(t, 1, Len(s)) = s

----------------------------------------------------------------------------
(* Images (PIL.Image): mode, size <<width, height>>, the raster px in row   *)
(* order with one sequence of band values per pixel, and ops, the          *)
(* operations applied since the file was loaded, in order. The arithmetic  *)
(* of the library's neighbourhood filters (SHARPEN, MedianFilter,          *)
(* GaussianBlur, resampling rotation) is not reproduced: after the first   *)
(* of them exact is FALSE, px stays the raster they were applied to and    *)
(* the image is that raster with the later part of ops applied. Two images *)
(* of the model are equal only if the same operations were applied to the  *)
(* same raster.                                                            *)

NoImage ==
    [mode |-> "none", size |-> <<0, 0>>, px |-> <<>>, exact |-> TRUE, ops |-> <<>>]

Op(name, param) == [name |-> name, param |-> param]

\* im with one more operation on record.
Applied(im, op) == [im EXCEPT !.ops = Append(@, op)]

\* im after a filter whose arithmetic is the library's.
Filtered(im, op) == [Applied(im, op) EXCEPT !.exact = FALSE]

\* The names of the operations applied to im, in order.
OpNames(im) == [i \in DOMAIN im.ops |-> im.ops[i].name]

\* Band values a decoded file may hold.
GreyLevels == {0, 128, 255}
RgbColours == {<<0, 0, 0>>, <<255, 0, 0>>, <<255, 255, 255>>}

\* What Image.open(path) yields for a decodable file: an "L" or an "RGB" raster.
DecodedFiles ==
    { [mode |-> "L", size |-> <<NumPixels, 1>>,
       px |-> [i \in 1..NumPixels |-> <<p[i]>>], exact |-> TRUE, ops |-> <<>>]
        : p \in [1..NumPixels -> GreyLevels] }
    \cup
    { [mode |-> "RGB", size |-> <<NumPixels, 1>>, px |-> p, exact |-> TRUE, ops |-> <<>>]
        : p \in [1..NumPixels -> RgbColours] }

\* im.convert("RGB"): a grey band is copied to the three colour bands.
ConvertRGB(im) ==
    IF im.mode = "RGB" THEN im
    ELSE [im EXCEPT !.mode = "RGB",
                    !.px = [i \in DOMAIN im.px |-> <<im.px[i][1], im.px[i][1], im.px[i][1]>>]]

\* load_image: the decoded file, normalised to RGB.
load_image(im) == ConvertRGB(im)

\* ITU-R 601 luma as the imaging library computes it in 16.16 fixed point.
Luma(p) == (p[1] * 19595 + p[2] * 38470 + p[3] * 7471 + 32768) \div 65536

\* ImageOps.grayscale(img): convert to mode "L".
Grayscale(im) ==
    LET r == Applied([im EXCEPT !.mode = "L"], Op("grayscale", ""))
    IN  IF im.exact /\ im.mode = "RGB"
        THEN [r EXCEPT !.px = [i \in DOMAIN im.px |-> <<Luma(im.px[i])>>]]
        ELSE r

\* img.filter(ImageFilter.SHARPEN)
Sharpen(im) == Filtered(im, Op("SHARPEN", ""))

\* img.filter(ImageFilter.MedianFilter(size=3))
Median(im) == Filtered(im, Op("MedianFilter", "3"))

\* img.filter(ImageFilter.GaussianBlur(radius=0.8))
Blur(im) == Filtered(im, Op("GaussianBlur", "0.8"))

\* threshold = max(0, min(255, threshold))
ClampThreshold(t) == Max(0, Min(255, t))

\* Binarize with the comparison `p >= threshold`.
BinarizeAtLeast(p, t) == IF p >= t THEN 255 ELSE 0

\* lambda p: 255 if p > threshold else 0
Binarize(p, t) == IF p > t THEN 255 ELSE 0

\* img.point(f): f applied to every band value of every pixel.
Point(im, t) ==
    LET r == Applied(im, Op("point", ToString(t)))
    IN  IF im.exact
        THEN [r EXCEPT !.px = [i \in DOMAIN im.px |->
                                  [b \in DOMAIN im.px[i] |-> Binarize(im.px[i][b], t)]]]
        ELSE r

\* img.rotate(angle, expand=True, fillcolor=255) of a one-row or one-column
\* raster, counter-clockwise for a positive angle: half and quarter turns are
\* exact transpositions, any other angle resamples.
Rotate(im, angle) ==
    LET a == angle % 360
        w == im.size[1]
        h == im.size[2]
        r == Applied(im, Op("rotate", ToString(a)))
    IN  IF a = 0 \/ ~im.exact THEN r
        ELSE IF a = 180 THEN [r EXCEPT !.px = Reverse(@)]
        ELSE IF a = 90
             THEN [r EXCEPT !.size = <<h, w>>, !.px = IF h = 1 THEN Reverse(@) ELSE @]
        ELSE IF a = 270
             THEN [r EXCEPT !.size = <<h, w>>, !.px = IF h = 1 THEN @ ELSE Reverse(@)]
        ELSE Filtered(im, Op("rotate", ToString(a)))

\* `if denoise:` for an Optional[str]
Truthy(o) == o # None /\ Get(o) # ""

\* preprocess_image with the threshold step ahead of the denoise step.
preprocess_threshold_first(im, grayscale, sharpen, threshold, denoise) ==
    LET g == IF grayscale THEN Grayscale(im) ELSE im
        s == IF sharpen THEN Sharpen(g) ELSE g
        t == IF threshold # None THEN Point(s, ClampThreshold(Get(threshold))) ELSE s
    IN  IF Truthy(denoise)
        THEN IF Get(denoise) = "median" THEN Median(t)
             ELSE IF Get(denoise) = "blur" THEN Blur(t)
             ELSE t
        ELSE t

\* preprocess_image(img, grayscale, sharpen, threshold, denoise)
preprocess_image(im, grayscale, sharpen, threshold, denoise) ==
    LET g == IF grayscale THEN Grayscale(im) ELSE im
        s == IF sharpen THEN Sharpen(g) ELSE g
        d == IF Truthy(denoise)
             THEN IF Get(denoise) = "median" THEN Median(s)
                  ELSE IF Get(denoise) = "blur" THEN Blur(s)
                  ELSE s
             ELSE s
    IN  IF threshold # None THEN Point(d, ClampThreshold(Get(threshold))) ELSE d

----------------------------------------------------------------------------
(* The OSD report of pytesseract.image_to_osd and its parsing *)

Digits == <<"0", "1", "2", "3", "4", "5", "6", "7", "8", "9">>
IsDigit(c) == \E d \in 1..10 : Digits[d] = c
DigitValue(c) == (CHOOSE d \in 1..10 : Digits[d] = c) - 1
IsSpace(c) == c \in {" ", "\t"}

\* pat in line
Contains(line, pat) ==
    \E i \in 1..(Len(line) - Len(pat) + 1) : SubSeq(line, i, i + Len(pat) - 1) = pat

\* line.split(sep, 1)[1] for a line that holds sep: what follows its first sep.
AfterFirst(line, sep) ==
    LET i == CHOOSE k \in 1..Len(line) :
                 line[k] = sep /\ \A j \in 1..(k - 1) : line[j] # sep
    IN  SubSeq(line, i + 1, Len(line))

\* s.strip()
Strip(s) ==
    LET ink == {k \in 1..Len(s) : ~IsSpace(s[k])}
    IN  IF ink = {} THEN <<>>
        ELSE SubSeq(s, CHOOSE k \in ink : \A j \in ink : k <= j,
                       CHOOSE k \in ink : \A j \in ink : k >= j)

RECURSIVE DecimalValue(_)
DecimalValue(ds) ==
    IF ds = <<>> THEN 0
    ELSE 10 * DecimalValue(SubSeq(ds, 1, Len(ds) - 1)) + DigitValue(ds[Len(ds)])

\* int(float(s))-like parsing: the leading digits decide, the rest is dropped.
ParseIntLenient(s) ==
    LET t == Strip(s)
        lead == {k \in 0..Len(t) : \A j \in 1..k : IsDigit(t[j])}
        n == CHOOSE k \in lead : \A j \in lead : k >= j
    IN  IF n = 0 THEN None ELSE Some(DecimalValue(SubSeq(t, 1, n)))

\* int(s): an optional sign and decimal digits; None where int raises ValueError.
ParseInt(s) ==
    LET t == Strip(s)
        signed == t # <<>> /\ t[1] \in {"+", "-"}
        ds == IF signed THEN Tail(t) ELSE t
    IN  IF ds = <<>> \/ \E k \in 1..Len(ds) : ~IsDigit(ds[k]) THEN None
        ELSE Some(IF signed /\ t[1] = "-" THEN 0 - DecimalValue(ds) ELSE DecimalValue(ds))

RotateTag == <<"R", "o", "t", "a", "t", "e", ":">>

\* The loop over osd.splitlines(): the first line holding "Rotate:" decides.
ParseAngle(report) ==
    LET hits == {k \in 1..Len(report) : Contains(report[k], RotateTag)}
    IN  IF hits = {} THEN None
        ELSE ParseInt(AfterFirst(report[CHOOSE k \in hits : \A j \in hits : k <= j], ":"))

\* _deskew_with_tesseract(img), given the engine's answer: an exception or a report.
deskew_with_tesseract(im, answer) ==
    IF answer.raised THEN im
    ELSE LET angle == ParseAngle(answer.report)
         IN  IF IsSome(angle) /\ Get(angle) % 360 # 0
             THEN Rotate(im, 0 - Get(angle))
             ELSE im

----------------------------------------------------------------------------
(* The environment's answers *)

PageLine == <<"P", "a", "g", "e", " ", "n", "u", "m", "b", "e", "r", ":", " ", "0">>
ScriptLine == <<"S", "c", "r", "i", "p", "t", ":", " ", "L", "a", "t", "i", "n">>
RotateLine(value) == RotateTag \o <<" ">> \o value

\* Reports image_to_osd may return: without a rotation field, with one that is
\* no integer, and with the angles 0, 90 and 180.
NoFieldReport == <<PageLine, ScriptLine>>
BadFieldReport == <<PageLine, RotateLine(<<"9", "0", ".", "0">>), ScriptLine>>

OsdReports ==
    { NoFieldReport,
      BadFieldReport,
      <<PageLine, RotateLine(<<"0">>), ScriptLine>>,
      <<PageLine, RotateLine(<<"9", "0">>), ScriptLine>>,
      <<PageLine, RotateLine(<<"1", "8", "0">>), ScriptLine>> }

\* image_to_osd either raises or returns a report.
OsdAnswers ==
    { [raised |-> TRUE, report |-> <<>>] }
    \cup { [raised |-> FALSE, report |-> r] : r \in OsdReports }

\* Texts image_to_string may return.
Texts == {"", "Hello OCR 123\nThis is a test image.\n"}

\* Exceptions of the libraries: the type and str(exc) as a sequence of lines.
Exception(type, msg) == [type |-> type, msg |-> msg]
TesseractNotFound ==
    Exception("TesseractNotFoundError",
              <<"tesseract is not installed or it's not in your PATH.">>)
CannotIdentifyImage ==
    Exception("UnidentifiedImageError", <<"cannot identify image file 'scan.png'">>)
ImagingFault == Exception("MemoryError", <<"">>)
TesseractFailed == Exception("TesseractError", <<"(1, 'Error opening data file')">>)
MkdirFailed == Exception("PermissionError", <<"[Errno 13] Permission denied: 'out'">>)
WriteFailed == Exception("OSError", <<"[Errno 28] No space left on device">>)

----------------------------------------------------------------------------
(* parse_args: the values argparse can hand to main *)

Thresholds == {None, Some(0 - 1), Some(0), Some(128), Some(300)}

ArgSpace ==
    [ image : {"scan.png"},
      lang : {"eng"},
      psm : {None, Some(0), Some(6)},
      oem : {None, Some(3)},
      no_grayscale : BOOLEAN,
      no_sharpen : BOOLEAN,
      threshold : Thresholds,
      denoise : {None, Some("median"), Some("blur")},
      deskew : BOOLEAN,
      output : {None, Some("out/result.txt")} ]

----------------------------------------------------------------------------
(* Text helpers *)

\* prefix + str(exc), as the lines print() emits.
PrefixLines(prefix, msg) ==
    IF msg = <<>> THEN <<prefix>> ELSE <<prefix \o msg[1]>> \o Tail(msg)

\* The installation guidance of _ensure_tesseract_available.
Guidance ==
    << "Tesseract OCR not found.",
       "Install it and ensure it's on PATH, e.g.:",
       "  - macOS:  brew install tesseract",
       "  - Ubuntu: sudo apt-get install -y tesseract-ocr",
       "Or set environment variable 'TESSERACT_CMD' to the binary path." >>

\* The version check's own exception, passed on as it is.
EngineUnavailableReraised(cause) == cause

\* raise RuntimeError(msg) from exc
EngineUnavailable(cause) ==
    Exception("RuntimeError", Guidance \o PrefixLines("Original error: ", cause.msg))

\* BuildConfig with `if psm:` / `if oem:` in place of `is not None`.
BuildConfigTruthy(psm, oem) ==
    LET p1 == IF psm # None /\ Get(psm) # 0 THEN <<"--psm " \o ToString(Get(psm))>> ELSE <<>>
        parts == IF oem # None /\ Get(oem) # 0
                 THEN Append(p1, "--oem " \o ToString(Get(oem))) ELSE p1
    IN  IF parts = <<>> THEN None
        ELSE IF Len(parts) = 1 THEN Some(parts[1])
        ELSE Some(parts[1] \o " " \o parts[2])

\* config_parts / config of ocr_image
BuildConfig(psm, oem) ==
    LET p1 == IF psm # None THEN <<"--psm " \o ToString(Get(psm))>> ELSE <<>>
        parts == IF oem # None THEN Append(p1, "--oem " \o ToString(Get(oem))) ELSE p1
    IN  IF parts = <<>> THEN None
        ELSE IF Len(parts) = 1 THEN Some(parts[1])
        ELSE Some(parts[1] \o " " \o parts[2])

----------------------------------------------------------------------------
(* The run *)

Init ==
    /\ args \in ArgSpace
    /\ path_exists \in BOOLEAN
    /\ engine_up \in BOOLEAN
    /\ pc = "main"
    /\ img = NoImage
    /\ osd = None
    /\ config = None
    /\ text = None
    /\ exc = None
    /\ rc = None
    /\ stdout = <<>>
    /\ stderr = <<>>
    /\ fs = [dirs |-> FALSE, file |-> None]
    /\ calls = <<>>

\* main: `if not args.image.exists()`: report and return 2.
MainNotFound ==
    /\ pc = "main"
    /\ ~path_exists
    /\ stderr' = Append(stderr, <<"Error: File not found: " \o args.image>>)
    /\ rc' = Some(2)
    /\ pc' = "exit"
    /\ UNCHANGED <<args, path_exists, engine_up, img, osd, config, text, exc,
                   stdout, fs, calls>>

\* MainCallOcr without the existence check.
MainCallOcrUnchecked ==
    /\ pc = "main"
    /\ pc' = "ensure"
    /\ UNCHANGED <<args, path_exists, engine_up, img, osd, config, text, exc, rc,
                   stdout, stderr, fs, calls>>

\* main: the path exists, ocr_image is called.
MainCallOcr ==
    /\ pc = "main"
    /\ path_exists
    /\ pc' = "ensure"
    /\ UNCHANGED <<args, path_exists, engine_up, img, osd, config, text, exc, rc,
                   stdout, stderr, fs, calls>>

\* ocr_image: _ensure_tesseract_available()
EnsureTesseract ==
    /\ pc = "ensure"
    /\ calls' = Append(calls, "_ensure_tesseract_available")
    /\ IF engine_up
       THEN pc' = "load" /\ exc' = exc
       ELSE pc' = "except" /\ exc' = Some(EngineUnavailable(TesseractNotFound))
    /\ UNCHANGED <<args, path_exists, engine_up, img, osd, config, text, rc,
                   stdout, stderr, fs>>

\* LoadImage followed by the deskew stage whatever args.deskew says.
LoadImageThenDeskew ==
    /\ pc = "load"
    /\ calls' = Append(calls, "load_image")
    /\ \E im \in DecodedFiles : img' = load_image(im)
    /\ pc' = "deskew"
    /\ UNCHANGED <<args, path_exists, engine_up, osd, config, text, exc, rc,
                   stdout, stderr, fs>>

\* ocr_image: img = load_image(image_path), the file decodes.
LoadImage ==
    /\ pc = "load"
    /\ calls' = Append(calls, "load_image")
    /\ \E im \in DecodedFiles : img' = load_image(im)
    /\ pc' = IF args.deskew THEN "deskew" ELSE "preprocess"
    /\ UNCHANGED <<args, path_exists, engine_up, osd, config, text, exc, rc,
                   stdout, stderr, fs>>

\* ocr_image: load_image raises, the file is no image (or is gone by now).
LoadImageFails ==
    /\ pc = "load"
    /\ calls' = Append(calls, "load_image")
    /\ exc' = Some(CannotIdentifyImage)
    /\ pc' = "except"
    /\ UNCHANGED <<args, path_exists, engine_up, img, osd, config, text, rc,
                   stdout, stderr, fs>>

\* ocr_image: `if deskew: img = _deskew_with_tesseract(img)`
Deskew ==
    /\ pc = "deskew"
    /\ calls' = Append(calls, "_deskew_with_tesseract")
    /\ \E answer \in OsdAnswers :
          /\ osd' = Some(answer)
          /\ img' = deskew_with_tesseract(img, answer)
    /\ pc' = "preprocess"
    /\ UNCHANGED <<args, path_exists, engine_up, config, text, exc, rc,
                   stdout, stderr, fs>>

\* ocr_image: img = preprocess_image(img, ...), with main's
\* grayscale=not args.no_grayscale and sharpen=not args.no_sharpen.
Preprocess ==
    /\ pc = "preprocess"
    /\ calls' = Append(calls, "preprocess_image")
    /\ img' = preprocess_image(img, ~args.no_grayscale, ~args.no_sharpen,
                               args.threshold, args.denoise)
    /\ pc' = "recognize"
    /\ UNCHANGED <<args, path_exists, engine_up, osd, config, text, exc, rc,
                   stdout, stderr, fs>>

\* ocr_image: a filter of the imaging library raises inside preprocess_image.
PreprocessFails ==
    /\ pc = "preprocess"
    /\ ~args.no_sharpen \/ Truthy(args.denoise)
    /\ calls' = Append(calls, "preprocess_image")
    /\ exc' = Some(ImagingFault)
    /\ pc' = "except"
    /\ UNCHANGED <<args, path_exists, engine_up, img, osd, config, text, rc,
                   stdout, stderr, fs>>

\* ocr_image: config is built and pytesseract.image_to_string returns the text.
Recognize ==
    /\ pc = "recognize"
    /\ calls' = Append(calls, "image_to_string")
    /\ config' = BuildConfig(args.psm, args.oem)
    /\ \E t \in Texts : text' = Some(t)
    /\ pc' = "sink"
    /\ UNCHANGED <<args, path_exists, engine_up, img, osd, exc, rc,
                   stdout, stderr, fs>>

\* ocr_image: config is built and pytesseract.image_to_string raises.
RecognizeFails ==
    /\ pc = "recognize"
    /\ calls' = Append(calls, "image_to_string")
    /\ config' = BuildConfig(args.psm, args.oem)
    /\ exc' = Some(TesseractFailed)
    /\ pc' = "except"
    /\ UNCHANGED <<args, path_exists, engine_up, img, osd, text, rc,
                   stdout, stderr, fs>>

\* MainExcept that lets the exception go on.
MainExceptReraises ==
    /\ pc = "except"
    /\ pc' = "raised"
    /\ UNCHANGED <<args, path_exists, engine_up, img, osd, config, text, exc, rc,
                   stdout, stderr, fs, calls>>

\* main: `except Exception as exc`: one print to stderr, return 1.
MainExcept ==
    /\ pc = "except"
    /\ stderr' = Append(stderr, PrefixLines("OCR failed: ", Get(exc).msg))
    /\ exc' = None
    /\ rc' = Some(1)
    /\ pc' = "exit"
    /\ UNCHANGED <<args, path_exists, engine_up, img, osd, config, text,
                   stdout, fs, calls>>

\* main: args.output.parent.mkdir(parents=True, exist_ok=True)
SinkMkdir ==
    /\ pc = "sink"
    /\ args.output # None
    /\ calls' = Append(calls, "mkdir")
    /\ fs' = [fs EXCEPT !.dirs = TRUE]
    /\ pc' = "write"
    /\ UNCHANGED <<args, path_exists, engine_up, img, osd, config, text, exc, rc,
                   stdout, stderr>>

\* main: mkdir raises; nothing catches it.
SinkMkdirFails ==
    /\ pc = "sink"
    /\ args.output # None
    /\ calls' = Append(calls, "mkdir")
    /\ exc' = Some(MkdirFailed)
    /\ pc' = "raised"
    /\ UNCHANGED <<args, path_exists, engine_up, img, osd, config, text, rc,
                   stdout, stderr, fs>>

\* main: args.output.write_text(text, encoding="utf-8")
SinkWrite ==
    /\ pc = "write"
    /\ calls' = Append(calls, "write_text")
    /\ fs' = [fs EXCEPT !.file = text]
    /\ pc' = "wrote"
    /\ UNCHANGED <<args, path_exists, engine_up, img, osd, config, text, exc, rc,
                   stdout, stderr>>

\* SinkWriteFails with the write inside main's try block.
SinkWriteFailsCaught ==
    /\ pc = "write"
    /\ calls' = Append(calls, "write_text")
    /\ \E opened \in BOOLEAN : fs' = [fs EXCEPT !.file = IF opened THEN Some("") ELSE @]
    /\ exc' = Some(WriteFailed)
    /\ pc' = "except"
    /\ UNCHANGED <<args, path_exists, engine_up, img, osd, config, text, rc,
                   stdout, stderr>>

\* main: write_text raises, before the file is opened or after it was
\* truncated; nothing catches it.
SinkWriteFails ==
    /\ pc = "write"
    /\ calls' = Append(calls, "write_text")
    /\ \E opened \in BOOLEAN : fs' = [fs EXCEPT !.file = IF opened THEN Some("") ELSE @]
    /\ exc' = Some(WriteFailed)
    /\ pc' = "raised"
    /\ UNCHANGED <<args, path_exists, engine_up, img, osd, config, text, rc,
                   stdout, stderr>>

\* SinkReport that echoes the text to stdout as well.
SinkReportEchoes ==
    /\ pc = "wrote"
    /\ stdout' = stdout \o <<Get(text), "Wrote: " \o Get(args.output) \o "\n">>
    /\ rc' = Some(0)
    /\ pc' = "exit"
    /\ UNCHANGED <<args, path_exists, engine_up, img, osd, config, text, exc,
                   stderr, fs, calls>>

\* main: print(f"Wrote: {args.output}"); return 0
SinkReport ==
    /\ pc = "wrote"
    /\ stdout' = Append(stdout, "Wrote: " \o Get(args.output) \o "\n")
    /\ rc' = Some(0)
    /\ pc' = "exit"
    /\ UNCHANGED <<args, path_exists, engine_up, img, osd, config, text, exc,
                   stderr, fs, calls>>

\* main: sys.stdout.write(text); return 0
SinkStdout ==
    /\ pc = "sink"
    /\ args.output = None
    /\ calls' = Append(calls, "stdout.write")
    /\ stdout' = Append(stdout, Get(text))
    /\ rc' = Some(0)
    /\ pc' = "exit"
    /\ UNCHANGED <<args, path_exists, engine_up, img, osd, config, text, exc,
                   stderr, fs>>

Next ==
    \/ MainNotFound
    \/ MainCallOcr
    \/ EnsureTesseract
    \/ LoadImage
    \/ LoadImageFails
    \/ Deskew
    \/ Preprocess
    \/ PreprocessFails
    \/ Recognize
    \/ RecognizeFails
    \/ MainExcept
    \/ SinkMkdir
    \/ SinkMkdirFails
    \/ SinkWrite
    \/ SinkWriteFails
    \/ SinkReport
    \/ SinkStdout

Spec == Init /\ [][Next]_vars

----------------------------------------------------------------------------
(* Properties *)

Untouched == [dirs |-> FALSE, file |-> None]
RanOcr == "image_to_string" \in {calls[i] : i \in DOMAIN calls}

\* C1: a run on a path that does not exist returns 2, and in it neither the
\* engine check, the Loader, the deskew estimator, the Preprocessor nor the
\* recognition call is executed and nothing reaches stdout or the output file.
C1_NotFoundReturns2 ==
    ~path_exists =>
        /\ pc \in {"main", "exit"}
        /\ pc = "exit" => rc = Some(2)
        /\ calls = <<>>
        /\ img = NoImage /\ osd = None /\ config = None /\ text = None
        /\ stdout = <<>>
        /\ fs = Untouched

C1_Witness == ~path_exists /\ pc = "exit" /\ rc = Some(2) /\ stderr # <<>>

\* What a run with the path present and the engine unreachable does, for an
\* error of the given type: the error carries the installation guidance, and
\* main ends with exit code 1 after printing the guidance to stderr.
EngineDownBehaviour(type) ==
    (path_exists /\ ~engine_up) =>
        /\ pc = "except" =>
              /\ exc # None
              /\ Get(exc).type = type
              /\ IsPrefix(Guidance, Get(exc).msg)
        /\ exc # None => pc = "except"
        /\ pc = "exit" =>
              /\ rc = Some(1)
              /\ Len(stderr) = 1
              /\ stderr[1][1] = "OCR failed: Tesseract OCR not found."
              /\ IsPrefix(Tail(Guidance), Tail(stderr[1]))

DiagnosticHeads ==
    { "OCR failed: " \o e.msg[1] :
        e \in {EngineUnavailable(TesseractNotFound), CannotIdentifyImage,
               ImagingFault, TesseractFailed} }

\* What main does with a failure raised inside ocr_image: it is caught, one
\* message starting "OCR failed: " is printed and 1 is returned; oneLine says
\* whether the message must be a single line.
FailureHandling(oneLine) ==
    /\ pc = "except" => exc # None /\ text = None /\ rc = None
    /\ pc = "raised" => text # None
    /\ (pc = "exit" /\ path_exists /\ text = None) =>
          /\ rc = Some(1)
          /\ exc = None
          /\ Len(stderr) = 1
          /\ stderr[1][1] \in DiagnosticHeads
          /\ oneLine => Len(stderr[1]) = 1
          /\ ~engine_up => Len(stderr[1]) > 1

\* C3 as stated: the diagnostic is a single line.
C3_Original == FailureHandling(TRUE)

\* C3: every failure raised inside ocr_image is caught by main, which prints
\* one diagnostic message "OCR failed: <error>" to stderr (several lines long
\* when the error text is, as for the unreachable engine) and returns 1; no
\* such failure leaves main as an exception.
C3_FailuresCaught == FailureHandling(FALSE)

C3_Witness ==
    pc = "exit" /\ rc = Some(1) /\ engine_up /\ RanOcr /\ Len(stderr[1]) = 1

\* The transforms the configuration selects, in the fixed order.
SelectedTransforms ==
    (IF args.no_grayscale THEN <<>> ELSE <<"grayscale">>)
    \o (IF args.no_sharpen THEN <<>> ELSE <<"SHARPEN">>)
    \o (IF args.denoise = Some("median") THEN <<"MedianFilter">>
        ELSE IF args.denoise = Some("blur") THEN <<"GaussianBlur">> ELSE <<>>)
    \o (IF args.threshold = None THEN <<>> ELSE <<"point">>)

\* C4: preprocess_image applies exactly the transforms the configuration
\* selects among grayscale, sharpen, denoise, threshold, in that order, each on
\* the result of the one before; with all four off the image comes back
\* unchanged, and a specified denoise applies exactly one of median and blur.
C4_TransformOrder ==
    [][ (pc = "preprocess" /\ pc' = "recognize") =>
            /\ OpNames(img') = OpNames(img) \o SelectedTransforms
            /\ img'.size = img.size
            /\ (args.no_grayscale /\ args.no_sharpen /\ args.denoise = None
                    /\ args.threshold = None) => img' = img
            /\ args.denoise # None =>
                  Cardinality({i \in DOMAIN img'.ops : i > Len(img.ops)
                                  /\ img'.ops[i].name \in {"MedianFilter", "GaussianBlur"}}) = 1
      ]_vars

C4_Witness ==
    /\ pc = "recognize"
    /\ ~args.deskew
    /\ OpNames(img) = <<"grayscale", "SHARPEN", "GaussianBlur", "point">>

\* The step of preprocess_image with grayscale and a threshold on, sharpen and
\* denoise off.
ThresholdOnlyStep ==
    /\ pc = "preprocess" /\ pc' = "recognize"
    /\ ~args.no_grayscale /\ args.no_sharpen /\ args.denoise = None
    /\ args.threshold # None

\* Every output pixel is 0 or 255, and 255 exactly if the grey value of the
\* input pixel exceeds t.
BinarizedAgainst(before, after, t) ==
    /\ after.mode = "L" /\ after.exact
    /\ DOMAIN after.px = DOMAIN before.px
    /\ \A i \in DOMAIN after.px :
          /\ after.px[i] \in {<<0>>, <<255>>}
          /\ after.px[i] = <<255>> <=> Luma(before.px[i]) > t

\* C5 as stated: the comparison is against T itself, for every integer T.
C5_Original ==
    [][ ThresholdOnlyStep => BinarizedAgainst(img, img', Get(args.threshold)) ]_vars

\* C5: with sharpen and denoise off, every output pixel of preprocess_image is
\* 0 or 255, and it is 255 exactly if the grey input pixel strictly exceeds T
\* clamped to [0, 255].
C5_Binarized ==
    [][ ThresholdOnlyStep =>
            LET T == Get(args.threshold)
            IN  BinarizedAgainst(img, img', IF T < 0 THEN 0 ELSE IF T > 255 THEN 255 ELSE T)
      ]_vars

C5_Witness ==
    /\ pc = "recognize"
    /\ ~args.no_grayscale /\ args.no_sharpen /\ args.denoise = None
    /\ args.threshold = Some(0 - 1)
    /\ img.px = <<<<0>>, <<255>>>>

\* C6: the deskew estimator never raises: when the orientation call fails, the
\* report has no rotation field or the field is no integer, the image comes
\* back unchanged, and the run goes on to the Preprocessor as without deskew.
C6_DeskewDegrades ==
    [][ pc = "deskew" =>
            /\ pc' = "preprocess"
            /\ exc' = None /\ rc' = None
            /\ (Get(osd').raised \/ Get(osd').report \in {NoFieldReport, BadFieldReport})
                  => img' = img
      ]_vars

C6_Witness ==
    /\ pc = "exit" /\ rc = Some(0)
    /\ osd = Some([raised |-> FALSE, report |-> BadFieldReport])
    /\ "rotate" \notin {img.ops[i].name : i \in DOMAIN img.ops}

\* The configuration string for the flags present: "--psm N", "--oem N".
ConfigFor(psm, oem) ==
    IF psm = None /\ oem = None THEN None
    ELSE IF oem = None THEN Some("--psm " \o ToString(psm[1]))
    ELSE IF psm = None THEN Some("--oem " \o ToString(oem[1]))
    ELSE Some("--psm " \o ToString(psm[1]) \o " --oem " \o ToString(oem[1]))

\* C7: the configuration passed to the engine is the space-joined tokens
\* "--psm N" then "--oem N" for exactly those of psm and oem that are present
\* (0 included), and no configuration string when neither is.
C7_EngineConfig ==
    /\ RanOcr => config = ConfigFor(args.psm, args.oem)
    /\ (RanOcr /\ args.psm = Some(0) /\ args.oem = None) => config = Some("--psm 0")
    /\ ~RanOcr => config = None

C7_Witness == RanOcr /\ config = Some("--psm 0 --oem 3")

StageOrder(checkFirst) ==
    (IF checkFirst THEN <<"_ensure_tesseract_available">> ELSE <<>>)
    \o <<"load_image">>
    \o (IF args.deskew THEN <<"_deskew_with_tesseract">> ELSE <<>>)
    \o <<"preprocess_image">>
    \o (IF checkFirst THEN <<>> ELSE <<"_ensure_tesseract_available">>)
    \o <<"image_to_string">>
    \o (IF args.output = None THEN <<"stdout.write">> ELSE <<"mkdir", "write_text">>)

\* A run's calls follow the given order, each at most once and none after a
\* failure, and the sink is written only after the recognition call returned.
Sequential(checkFirst) ==
    /\ IsPrefix(calls, StageOrder(checkFirst))
    /\ (stdout # <<>> \/ fs # Untouched) => (text # None /\ RanOcr)
    /\ rc = Some(1) => (stdout = <<>> /\ fs = Untouched)

\* C9 as stated: the engine check is the first step of the Recognizer adapter,
\* after the Preprocessor.
C9_Original == Sequential(FALSE)

\* C9: the stages run strictly in the order engine-reachability check, Loader,
\* deskew estimator (only when enabled), Preprocessor, recognition call, output
\* sink; each at most once, each only after the one before succeeded, and the
\* sink is written only after the recognition call returned.
C9_Sequential == Sequential(TRUE)

C9_Witness ==
    /\ pc = "exit" /\ rc = Some(0)
    /\ calls = <<"_ensure_tesseract_available", "load_image", "_deskew_with_tesseract",
                 "preprocess_image", "image_to_string", "mkdir", "write_text">>

\* C10: a failure of mkdir or write_text comes after the recognition succeeded
\* and is not caught: the run ends with the exception leaving main, without an
\* exit code 0, 1 or 2 and without an "OCR failed" diagnostic.
C10_SinkFailureEscapes ==
    [][ /\ pc # "raised"
        /\ (pc \in {"sink", "write"} /\ exc' # None) =>
              /\ pc' = "raised"
              /\ text # None
              /\ rc' = None
              /\ stderr' = <<>>
        /\ pc' = "raised" => (pc \in {"sink", "write"} /\ exc' # None)
      ]_vars

C10_Witness ==
    /\ pc = "raised"
    /\ exc = Some(WriteFailed)
    /\ fs.dirs /\ rc = None /\ stderr = <<>>

====
